---- MODULE Spec2Model ----
(***************************************************************************)
(* Model of the safe wrappers of skia-safe around the native drawing       *)
(* surface (core/surface.rs) and the text paragraph                        *)
(* (modules/paragraph/paragraph.rs).                                       *)
(*                                                                         *)
(* The state holds the native surfaces that exist, the pixel buffers of    *)
(* the caller, the paragraph, the image info and row stride the caller     *)
(* has prepared for its calls (args), and a record of the last call:       *)
(* whether the native function was reached and with which stride, and its  *)
(* outcome ("some", "none", or "panic").                                   *)
(***************************************************************************)
EXTENDS Integers, FiniteSets, Sequences, TLC

VARIABLES surfaces, buffers, image, paragraph, args, last, panicked

vars == <<surfaces, buffers, image, paragraph, args, last, panicked>>

---------------------------------------------------------------------------
(* Bounds of the model *)

MaxSurfaces == 2
MaxBuffers == 1
MaxDim == 2
MaxRowBytes == 4
MaxBufLen == 4
MaxRefs == 2
MaxGen == 2

SurfaceIds == 1..MaxSurfaces
BufferIds == 1..MaxBuffers
Dims == -1..MaxDim
BufLens == 0..MaxBufLen

---------------------------------------------------------------------------
(* Option<usize> arguments *)

None == [some |-> FALSE, val |-> 0]
Some(n) == [some |-> TRUE, val |-> n]

RowBytesOpts == {None} \cup {Some(n) : n \in 0..MaxRowBytes}

\* A usize wider than a model integer (32 bits), held as hi * 2^16 + lo
Wide(hi, lo) == <<hi, lo>>
WideLeq(a, b) == a[1] < b[1] \/ (a[1] = b[1] /\ a[2] <= b[2])

\* largest value an i32 holds; sample counts above it do not convert
I32Max == Wide(2^15 - 1, 2^16 - 1)
\* largest value a u32 holds; glyph indices above it do not convert
U32Max == Wide(2^16 - 1, 2^16 - 1)

NoCount == [some |-> FALSE, val |-> Wide(0, 0)]
SampleCountOpts == {NoCount, Some(Wide(0, 4)), Some(Wide(2^15, 0))}
GlyphIndices == {Wide(0, 0), U32Max, Wide(2^16, 0)}

\* the widths a paragraph is laid out at
MaxWidth == 2
Widths == 1 .. MaxWidth
\* the most glyphs of the text that no font has
MaxUnresolved == 1
\* the threads that share the paragraph
MaxThreads == 2
Threads == 1 .. MaxThreads

---------------------------------------------------------------------------
(* ImageInfo: the pixel format descriptor *)

ColorTypes == {"Unknown", "Alpha8", "RGBA8888"}

ImageInfo(w, h, ct) == [width |-> w, height |-> h, colorType |-> ct]
ImageInfos == {ImageInfo(w, h, ct) : w \in Dims, h \in Dims, ct \in ColorTypes}
NoInfo == ImageInfo(0, 0, "Unknown")

bytes_per_pixel(ct) ==
    CASE ct = "RGBA8888" -> 4
      [] ct = "Alpha8" -> 1
      [] OTHER -> 0

\* the minimum stride implied by width and format
min_row_bytes(info) ==
    IF info.width > 0 THEN info.width * bytes_per_pixel(info.colorType) ELSE 0

\* the byte size of the pixels: row stride times height (a size is never negative)
compute_byte_size(info, row_bytes) ==
    IF info.height > 0 THEN row_bytes * info.height ELSE 0

\* a color type a raster surface can draw into
raster_supported(ct) == ct # "Unknown"

---------------------------------------------------------------------------
(* Pixels: a pixel is the sequence of its bytes, a grid maps the points of *)
(* a rectangle to pixels, a pixel storage is a sequence of bytes with a    *)
(* row stride.                                                             *)

Points(w, h) == (0 .. w - 1) \X (0 .. h - 1)

Pixel(ct, byte) == [k \in 1 .. bytes_per_pixel(ct) |-> byte]

\* zeroed pixel memory
ZeroGrid(info) == [p \in Points(info.width, info.height) |-> Pixel(info.colorType, 0)]

\* what the default Paint draws: opaque black
OpaqueBlack(ct) ==
    [k \in 1 .. bytes_per_pixel(ct) |-> IF k = bytes_per_pixel(ct) THEN 255 ELSE 0]

\* the conversion between color types: alpha is the fourth byte of RGBA8888
\* and the only byte of Alpha8; a pixel made from alpha alone is black
convert(px, from, to) ==
    CASE from = to -> px
      [] from = "RGBA8888" /\ to = "Alpha8" -> <<px[4]>>
      [] from = "Alpha8" /\ to = "RGBA8888" -> <<0, 0, 0, px[1]>>
      [] OTHER -> Pixel(to, 0)

convertible(from, to) == from # "Unknown" /\ to # "Unknown"

\* the index (from 1) of byte k of the pixel at point p, rows row_bytes apart
ByteAt(p, k, ct, row_bytes) == p[2] * row_bytes + p[1] * bytes_per_pixel(ct) + k

\* the pixels of info found in a pixel storage
Decode(bytes, info, row_bytes) ==
    [p \in Points(info.width, info.height) |->
        [k \in 1 .. bytes_per_pixel(info.colorType) |->
            bytes[ByteAt(p, k, info.colorType, row_bytes)]]]

\* a pixel storage after the pixels of grid are stored in it
Store(bytes, ct, row_bytes, grid) ==
    [i \in DOMAIN bytes |->
        LET hits == {pk \in (DOMAIN grid) \X (1 .. bytes_per_pixel(ct)) :
                        ByteAt(pk[1], pk[2], ct, row_bytes) = i}
        IN  IF hits = {} THEN bytes[i]
            ELSE LET pk == CHOOSE h \in hits : TRUE IN grid[pk[1]][pk[2]]]

\* grid with the pixels of patch in place of its own, each at its point
Merge(grid, patch) ==
    [p \in (DOMAIN grid) \cup (DOMAIN patch) |->
        IF p \in DOMAIN patch THEN patch[p] ELSE grid[p]]

---------------------------------------------------------------------------
(* The native factories: whether the native library returns a surface      *)
(* (a non-null pointer) for the arguments it is given.                     *)

PositiveDims(w, h) == w > 0 /\ h > 0

SkSurface_MakeRasterDirect(info, row_bytes) ==
    /\ PositiveDims(info.width, info.height)
    /\ raster_supported(info.colorType)
    /\ row_bytes >= min_row_bytes(info)

SkSurface_MakeRaster(info, row_bytes) ==
    /\ PositiveDims(info.width, info.height)
    /\ raster_supported(info.colorType)
    /\ (row_bytes = 0 \/ row_bytes >= min_row_bytes(info))

\* only the width looked at
MakeRasterN32Premul_width_only(width, height) == width > 0

SkSurface_MakeRasterN32Premul(width, height) == PositiveDims(width, height)

\* zero taken for a valid dimension
MakeNull_nonnegative(width, height) == width >= 0 /\ height >= 0

SkSurface_MakeNull(width, height) == PositiveDims(width, height)

\* ctx_ok: the graphics context accepts the format and can allocate the target
SkSurface_MakeRenderTarget(info, ctx_ok) ==
    /\ PositiveDims(info.width, info.height)
    /\ raster_supported(info.colorType)
    /\ ctx_ok

\* ctx_ok: the backend texture's configuration agrees with the context
SkSurface_MakeFromBackendTexture(ctx_ok) == ctx_ok

\* the size asked not looked at
makeSurface_any_size(kind, info) ==
    kind = "null" \/ raster_supported(info.colorType)

\* a surface derived from one of kind `kind`
SkSurface_makeSurface(kind, info) ==
    /\ PositiveDims(info.width, info.height)
    /\ (kind = "null" \/ raster_supported(info.colorType))

\* the native snapshot: a null surface has no pixels and yields no image
SkSurface_makeImageSnapshot(kind) == kind # "null"

---------------------------------------------------------------------------
(* Surfaces and buffers *)

Kinds == {"raster", "direct", "gpu", "null"}

\* SurfaceCharacterization: the properties of a GPU surface that drawing
\* recorded elsewhere has to agree with; the default one is not valid
Characterization(info) == [valid |-> TRUE, info |-> info]
NoCharacterization == [valid |-> FALSE, info |-> NoInfo]

\* history: the source of the last write_pixels call on a surface, kept while
\* nothing else has changed the content
NoWrite == [info |-> NoInfo, at |-> <<0, 0>>, pixels |-> <<>>]

NoSurface ==
    [kind |-> "none", width |-> 0, height |-> 0, colorType |-> "Unknown",
     refCnt |-> 0, owners |-> 0, buf |-> 0, content |-> 0, gen |-> 0,
     canvas |-> 0, held |-> 0, rowBytes |-> 0, pixels |-> <<>>, wrote |-> NoWrite,
     pending |-> 0, madeFor |-> NoCharacterization, alloc |-> 0]

\* the height taken from the width
NativeSurface_square(kind, info, buf) ==
    [kind |-> kind, width |-> info.width, height |-> info.width,
     colorType |-> info.colorType,
     refCnt |-> 1, owners |-> 0, buf |-> buf, content |-> 0, gen |-> 0,
     canvas |-> 0, held |-> 0, rowBytes |-> 0,
     pixels |-> IF kind \in {"raster", "gpu"}
                THEN ZeroGrid(ImageInfo(info.width, info.width, info.colorType)) ELSE <<>>,
     wrote |-> NoWrite, pending |-> 0, madeFor |-> NoCharacterization, alloc |-> 0]

\* the object the native factory allocates: it is born with one reference;
\* the pixel memory it allocates is zeroed, the pixels of a direct surface are
\* those of the caller's buffer, a null surface has none
NativeSurface(kind, info, buf) ==
    [kind |-> kind, width |-> info.width, height |-> info.height,
     colorType |-> info.colorType,
     refCnt |-> 1, owners |-> 0, buf |-> buf, content |-> 0, gen |-> 0,
     canvas |-> 0, held |-> 0, rowBytes |-> 0,
     pixels |-> IF kind \in {"raster", "gpu"} THEN ZeroGrid(info) ELSE <<>>,
     wrote |-> NoWrite, pending |-> 0, madeFor |-> NoCharacterization, alloc |-> 0]

\* the handle taking a reference of its own on top of the factory's
from_ptr_ref(native) == [native EXCEPT !.owners = 1, !.refCnt = @ + 1]

\* the handle adopts the reference the factory returned
from_ptr(native) == [native EXCEPT !.owners = 1]

NoBuffer == [live |-> FALSE, len |-> 0, borrowedBy |-> 0, data |-> 0, bytes |-> <<>>]

NoImage == [live |-> FALSE, surf |-> 0, left |-> 0, top |-> 0, right |-> 0, bottom |-> 0,
            pixels |-> <<>>]

Live(s) == surfaces[s].kind # "none"

FreeSlots == {s \in SurfaceIds : ~Live(s)}
NextSlot == CHOOSE s \in FreeSlots : \A t \in FreeSlots : s <= t

\* a handle of the surface that is not lending out its canvas: a call on a
\* surface takes such a handle (&self or &mut self)
FreeHandle(s) == surfaces[s].held < surfaces[s].owners

width(s) == surfaces[s].width
height(s) == surfaces[s].height

\* the ImageInfo of a native surface
info_of(surf) == ImageInfo(surf.width, surf.height, surf.colorType)

\* the pixels of a native surface
pixels_of(surf) ==
    IF surf.kind = "direct"
    THEN Decode(buffers[surf.buf].bytes, info_of(surf), surf.rowBytes)
    ELSE surf.pixels

\* a surface returned without tying it to the buffer's lifetime
borrows_nothing(bufs, s, b) == bufs

\* the surface keeps the exclusive borrow of the buffer it draws into
borrows(bufs, s, b) == [bufs EXCEPT ![b].borrowedBy = s]

\* the borrow ends with the surface
release(bufs, s) ==
    [b \in BufferIds |->
        IF bufs[b].borrowedBy = s THEN [bufs[b] EXCEPT !.borrowedBy = 0] ELSE bufs[b]]

---------------------------------------------------------------------------
(* The paragraph the builder hands over: not laid out, with its text and   *)
(* style, no thread inside a call on it.                                   *)
(* history: shaped tells that layout has run at some time                  *)

NewParagraph ==
    [state |-> "built", width |-> 0, text |-> 1, unresolved |-> 0,
     shaped |-> FALSE, inside |-> [t \in Threads |-> "idle"]]

---------------------------------------------------------------------------
(* The record of the last call *)

Call(op) ==
    [op |-> op, result |-> "unit", native |-> FALSE, info |-> NoInfo,
     rowBytes |-> None, len |-> 0, buf |-> 0,
     strideChecked |-> 0, strideNative |-> 0,
     surf |-> 0, count |-> NoCount, range |-> <<Wide(0, 0), Wide(0, 0)>>,
     value |-> 0, at |-> <<0, 0>>,
     bounds |-> [left |-> 0, top |-> 0, right |-> 0, bottom |-> 0],
     parent |-> 0, charac |-> NoCharacterization]

Init ==
    /\ surfaces = [s \in SurfaceIds |-> NoSurface]
    /\ buffers = [b \in BufferIds |-> NoBuffer]
    /\ image = NoImage
    /\ paragraph = NewParagraph
    /\ args \in [info : ImageInfos, rowBytes : RowBytesOpts]
    /\ last = Call("init")
    /\ panicked = FALSE

---------------------------------------------------------------------------
(* The caller's pixel buffers.  A buffer lent to a surface as              *)
(* &'pixels mut [u8] cannot be touched by the caller until the borrow ends.*)

Unborrowed(b) == buffers[b].live /\ buffers[b].borrowedBy = 0

\* the caller's pixel pattern: every byte differs from the others and from zero
Pattern(len) == [i \in 1 .. len |-> i]

\* vec![0u8; len]
AllocBuffer(b, len) ==
    /\ ~panicked
    /\ ~buffers[b].live
    /\ buffers' = [buffers EXCEPT ![b] = [live |-> TRUE, len |-> len, borrowedBy |-> 0,
                                          data |-> 0, bytes |-> [i \in 1 .. len |-> 0]]]
    /\ last' = [Call("alloc_buffer") EXCEPT !.buf = b, !.len = len]
    /\ UNCHANGED <<surfaces, image, paragraph, args, panicked>>

CallerWriteBuffer(b) ==
    /\ ~panicked
    /\ Unborrowed(b)
    /\ buffers' = [buffers EXCEPT ![b].data = 0, ![b].bytes = Pattern(buffers[b].len)]
    /\ last' = [Call("caller_write") EXCEPT !.buf = b, !.len = buffers[b].len]
    /\ UNCHANGED <<surfaces, image, paragraph, args, panicked>>

CallerReadBuffer(b) ==
    /\ ~panicked
    /\ Unborrowed(b)
    /\ last' = [Call("caller_read") EXCEPT !.buf = b, !.len = buffers[b].len,
                                           !.result = IF buffers[b].data = 0 THEN "zero" ELSE "drawn"]
    /\ UNCHANGED <<surfaces, buffers, image, paragraph, args, panicked>>

FreeBuffer(b) ==
    /\ ~panicked
    /\ Unborrowed(b)
    /\ buffers' = [buffers EXCEPT ![b] = NoBuffer]
    /\ last' = [Call("free_buffer") EXCEPT !.buf = b]
    /\ UNCHANGED <<surfaces, image, paragraph, args, panicked>>

---------------------------------------------------------------------------
(* Raster factories *)

\* the surface enters the lowest free slot, owned by the handle returned
Created(native, call) ==
    /\ surfaces' = [surfaces EXCEPT ![NextSlot] = from_ptr(native)]
    /\ last' = [call EXCEPT !.result = "some", !.native = TRUE, !.surf = NextSlot]

\* the stride defaulting to zero, as in new_raster
effective_row_bytes_default(info, rowBytes) ==
    IF rowBytes.some THEN rowBytes.val ELSE 0

\* row_bytes.into().unwrap_or_else(|| image_info.min_row_bytes())
effective_row_bytes(info, rowBytes) ==
    IF rowBytes.some THEN rowBytes.val ELSE min_row_bytes(info)

\* the length check left out
pixels_never_too_short(len, info, row_bytes) == FALSE

\* the length check off by one
pixels_too_short_le(len, info, row_bytes) ==
    len <= compute_byte_size(info, row_bytes)

\* the length check made against the minimum stride, not the stride given
pixels_too_short_min_stride(len, info, row_bytes) ==
    len < compute_byte_size(info, min_row_bytes(info))

\* pixels.len() < image_info.compute_byte_size(row_bytes)
pixels_too_short(len, info, row_bytes) ==
    len < compute_byte_size(info, row_bytes)

new_raster_direct(b, info, rowBytes) ==
    /\ ~panicked
    /\ FreeSlots # {}
    /\ Unborrowed(b)
    /\ LET row_bytes == effective_row_bytes(info, rowBytes)
           call == [Call("new_raster_direct") EXCEPT
                      !.info = info, !.rowBytes = rowBytes, !.buf = b,
                      !.len = buffers[b].len, !.strideChecked = row_bytes]
       IN  IF pixels_too_short(buffers[b].len, info, row_bytes)
           THEN /\ last' = [call EXCEPT !.result = "none"]
                /\ UNCHANGED <<surfaces, buffers>>
           ELSE IF SkSurface_MakeRasterDirect(info, row_bytes)
                THEN /\ Created([NativeSurface("direct", info, b) EXCEPT !.rowBytes = row_bytes],
                                [call EXCEPT !.strideNative = row_bytes])
                     /\ buffers' = borrows(buffers, NextSlot, b)
                ELSE /\ last' = [call EXCEPT !.result = "none", !.native = TRUE,
                                             !.strideNative = row_bytes]
                     /\ UNCHANGED <<surfaces, buffers>>
    /\ UNCHANGED <<image, paragraph, args, panicked>>

\* the bytes of pixel memory the native factory allocates: the height times
\* the row stride, or times the minimum row stride when the stride is zero
MakeRaster_byte_size(info, row_bytes) ==
    info.height * (IF row_bytes = 0 THEN min_row_bytes(info) ELSE row_bytes)

\* the stride defaulting to one byte
raster_row_bytes_one(rowBytes) == IF rowBytes.some THEN rowBytes.val ELSE 1

\* row_bytes.into().unwrap_or_default()
raster_row_bytes(rowBytes) == IF rowBytes.some THEN rowBytes.val ELSE 0

new_raster(info, rowBytes) ==
    /\ ~panicked
    /\ FreeSlots # {}
    /\ LET row_bytes == raster_row_bytes(rowBytes)
           call == [Call("new_raster") EXCEPT
                      !.info = info, !.rowBytes = rowBytes, !.native = TRUE,
                      !.strideNative = row_bytes]
       IN  IF SkSurface_MakeRaster(info, row_bytes)
           THEN Created([NativeSurface("raster", info, 0) EXCEPT
                           !.alloc = MakeRaster_byte_size(info, row_bytes)], call)
           ELSE /\ last' = [call EXCEPT !.result = "none"]
                /\ UNCHANGED surfaces
    /\ UNCHANGED <<buffers, image, paragraph, args, panicked>>

\* the native color type, premultiplied: four bytes a pixel
N32Info(w, h) == ImageInfo(w, h, "RGBA8888")

new_raster_n32_premul(w, h) ==
    /\ ~panicked
    /\ FreeSlots # {}
    /\ LET call == [Call("new_raster_n32_premul") EXCEPT
                      !.info = N32Info(w, h), !.native = TRUE]
       IN  IF SkSurface_MakeRasterN32Premul(w, h)
           THEN Created(NativeSurface("raster", N32Info(w, h), 0), call)
           ELSE /\ last' = [call EXCEPT !.result = "none"]
                /\ UNCHANGED surfaces
    /\ UNCHANGED <<buffers, image, paragraph, args, panicked>>

\* a null surface has no pixels, so no color type
NullInfo(w, h) == ImageInfo(w, h, "Unknown")

new_null(w, h) ==
    /\ ~panicked
    /\ FreeSlots # {}
    /\ LET call == [Call("new_null") EXCEPT !.info = NullInfo(w, h), !.native = TRUE]
       IN  IF SkSurface_MakeNull(w, h)
           THEN Created(NativeSurface("null", NullInfo(w, h), 0), call)
           ELSE /\ last' = [call EXCEPT !.result = "none"]
                /\ UNCHANGED surfaces
    /\ UNCHANGED <<buffers, image, paragraph, args, panicked>>

---------------------------------------------------------------------------
(* GPU factories (feature "gpu") *)

unwrap_or(opt, default) == IF opt.some THEN opt.val ELSE default

\* sample_count.into().unwrap_or(0).try_into(): the count as an i32
sample_count_converts(count) == WideLeq(unwrap_or(count, Wide(0, 0)), I32Max)

Panic(call) ==
    /\ last' = [call EXCEPT !.result = "panic"]
    /\ panicked' = TRUE

new_render_target(info, count, ctx_ok) ==
    /\ ~panicked
    /\ FreeSlots # {}
    /\ LET call == [Call("new_render_target") EXCEPT !.info = info, !.count = count]
       IN  IF ~sample_count_converts(count)
           THEN Panic(call) /\ UNCHANGED surfaces
           ELSE /\ IF SkSurface_MakeRenderTarget(info, ctx_ok)
                   THEN Created(NativeSurface("gpu", info, 0), call)
                   ELSE /\ last' = [call EXCEPT !.result = "none", !.native = TRUE]
                        /\ UNCHANGED surfaces
                /\ UNCHANGED panicked
    /\ UNCHANGED <<buffers, image, paragraph, args>>

\* the textures the caller may wrap: valid ones, of positive size
BackendTextures == {ImageInfo(MaxDim, 1, "RGBA8888")}

from_backend_texture(texture, count, ctx_ok) ==
    /\ ~panicked
    /\ FreeSlots # {}
    /\ LET call == [Call("from_backend_texture") EXCEPT !.info = texture, !.count = count]
       IN  IF ~sample_count_converts(count)
           THEN Panic(call) /\ UNCHANGED surfaces
           ELSE /\ IF SkSurface_MakeFromBackendTexture(ctx_ok)
                   THEN Created(NativeSurface("gpu", texture, 0), call)
                   ELSE /\ last' = [call EXCEPT !.result = "none", !.native = TRUE]
                        /\ UNCHANGED surfaces
                /\ UNCHANGED panicked
    /\ UNCHANGED <<buffers, image, paragraph, args>>

---------------------------------------------------------------------------
(* Operations on a surface *)

\* raster stays raster (with pixels of its own), GPU stays GPU, null stays null
DerivedKind(kind) == IF kind = "direct" THEN "raster" ELSE kind

new_surface(s, info) ==
    /\ ~panicked
    /\ Live(s)
    /\ FreeHandle(s)
    /\ FreeSlots # {}
    /\ LET call == [Call("new_surface") EXCEPT !.info = info, !.native = TRUE,
                                                !.parent = s]
           kind == DerivedKind(surfaces[s].kind)
       IN  IF SkSurface_makeSurface(kind, info)
           THEN Created(NativeSurface(kind, info, 0), call)
           ELSE /\ last' = [call EXCEPT !.result = "none"]
                /\ UNCHANGED surfaces
    /\ UNCHANGED <<buffers, image, paragraph, args, panicked>>

new_surface_with_dimensions(s, w, h) ==
    /\ ~panicked
    /\ Live(s)
    /\ FreeHandle(s)
    /\ FreeSlots # {}
    /\ LET info == ImageInfo(w, h, surfaces[s].colorType)
           call == [Call("new_surface_with_dimensions") EXCEPT
                      !.info = info, !.native = TRUE, !.parent = s]
           kind == DerivedKind(surfaces[s].kind)
       IN  IF SkSurface_makeSurface(kind, info)
           THEN Created(NativeSurface(kind, info, 0), call)
           ELSE /\ last' = [call EXCEPT !.result = "none"]
                /\ UNCHANGED surfaces
    /\ UNCHANGED <<buffers, image, paragraph, args, panicked>>

\* a second handle to the same native surface
CloneSurface(s) ==
    /\ ~panicked
    /\ Live(s)
    /\ FreeHandle(s)
    /\ surfaces[s].kind # "direct"
    /\ surfaces[s].owners < MaxRefs
    /\ surfaces' = [surfaces EXCEPT ![s].refCnt = @ + 1, ![s].owners = @ + 1]
    /\ last' = [Call("clone") EXCEPT !.surf = s]
    /\ UNCHANGED <<buffers, image, paragraph, args, panicked>>

\* a handle is dropped; the native surface is destroyed with its last reference
DropSurface(s) ==
    /\ ~panicked
    /\ Live(s)
    /\ FreeHandle(s)
    /\ IF surfaces[s].refCnt = 1
       THEN /\ surfaces' = [surfaces EXCEPT ![s] = NoSurface]
            /\ buffers' = release(buffers, s)
       ELSE /\ surfaces' = [surfaces EXCEPT ![s].refCnt = @ - 1, ![s].owners = @ - 1]
            /\ UNCHANGED buffers
    /\ last' = [Call("drop") EXCEPT !.surf = s]
    /\ UNCHANGED <<image, paragraph, args, panicked>>

\* the content id kept over a change of content
content_unchanged(surf) == surf

\* the content of the native surface changes: its content id is a new one
content_changed(surf) == [surf EXCEPT !.gen = @ + 1]

\* a content id is a u32: the ids are counted up to MaxGen
MayChange(s) == surfaces[s].gen < MaxGen

\* a new canvas made at every call
getCanvas_fresh(surf) == surf.canvas + 1

\* getCanvas(): the canvas is made at the first call and kept by the surface;
\* the canvases of a surface are numbered in the order they are made
SkSurface_getCanvas(surf) == IF surf.canvas = 0 THEN 1 ELSE surf.canvas

\* the pixels of patch enter the pixel storage of surface s, whose record
\* becomes surf; drawn: they were drawn, not copied.  What a GPU surface draws
\* is a command recorded for the 3D API, pending until it is flushed
store_pixels(s, surf, patch, drawn) ==
    IF surf.kind = "direct"
    THEN /\ buffers' = [buffers EXCEPT
                          ![surf.buf].bytes = Store(@, surf.colorType, surf.rowBytes, patch),
                          ![surf.buf].data = IF drawn THEN 1 ELSE @]
         /\ surfaces' = [surfaces EXCEPT ![s] = surf]
    ELSE /\ surfaces' = [surfaces EXCEPT ![s] =
                            [surf EXCEPT !.pixels = Merge(@, patch),
                                         !.content = IF drawn THEN 1 ELSE @,
                                         !.pending = IF surf.kind = "gpu" THEN 1 ELSE @]]
         /\ UNCHANGED buffers

\* the image taken of the surface sharing the pixels the surface changes
put_pixels_shared(s, surf, patch, drawn) ==
    /\ store_pixels(s, surf, patch, drawn)
    /\ image' = IF image.live /\ image.surf = s
                THEN [image EXCEPT !.pixels =
                        [p \in DOMAIN image.pixels |->
                            IF <<p[1] + image.left, p[2] + image.top>> \in DOMAIN patch
                            THEN patch[<<p[1] + image.left, p[2] + image.top>>]
                            ELSE image.pixels[p]]]
                ELSE image

\* the content of surface s changes: an image taken of it before keeps the
\* pixels it captured
put_pixels(s, surf, patch, drawn) ==
    /\ store_pixels(s, surf, patch, drawn)
    /\ image' = image

\* the circle painted: it covers the top left pixel and no other
Painted(surf) == [p \in {<<0, 0>>} |-> OpaqueBlack(surf.colorType)]

\* canvas.draw_circle(..) on the canvas of surface s, whose record is surf;
\* drawing to the canvas of a null surface has no effect
draw_circle(s, surf) ==
    IF surf.kind = "null"
    THEN /\ surfaces' = [surfaces EXCEPT ![s] = surf]
         /\ UNCHANGED <<buffers, image>>
    ELSE /\ MayChange(s)
         /\ put_pixels(s, [content_changed(surf) EXCEPT !.wrote = NoWrite], Painted(surf), TRUE)

\* surface.canvas().draw_circle(..): the canvas borrowed for one drawing call
Draw(s) ==
    /\ ~panicked
    /\ Live(s)
    /\ FreeHandle(s)
    /\ draw_circle(s, [surfaces[s] EXCEPT !.canvas = SkSurface_getCanvas(surfaces[s])])
    /\ last' = [Call("draw") EXCEPT !.surf = s]
    /\ UNCHANGED <<paragraph, args, panicked>>

\* the canvas lent out through &self: a handle lending it out again
canvas_shared(s) ==
    /\ ~panicked
    /\ Live(s)
    /\ surfaces[s].held < MaxRefs + 1
    /\ surfaces' = [surfaces EXCEPT ![s].canvas = SkSurface_getCanvas(surfaces[s]),
                                    ![s].held = @ + 1]
    /\ last' = [Call("canvas") EXCEPT !.surf = s, !.native = TRUE,
                                      !.value = SkSurface_getCanvas(surfaces[s])]
    /\ UNCHANGED <<buffers, image, paragraph, args, panicked>>

\* let canvas = surface.canvas(): the handle lends out the canvas as &mut Canvas
canvas(s) ==
    /\ ~panicked
    /\ Live(s)
    /\ FreeHandle(s)
    /\ surfaces' = [surfaces EXCEPT ![s].canvas = SkSurface_getCanvas(surfaces[s]),
                                    ![s].held = @ + 1]
    /\ last' = [Call("canvas") EXCEPT !.surf = s, !.native = TRUE,
                                      !.value = SkSurface_getCanvas(surfaces[s])]
    /\ UNCHANGED <<buffers, image, paragraph, args, panicked>>

\* canvas.draw_circle(..) through a canvas reference that is held
CanvasDraw(s) ==
    /\ ~panicked
    /\ surfaces[s].held > 0
    /\ draw_circle(s, surfaces[s])
    /\ last' = [Call("canvas_draw") EXCEPT !.surf = s]
    /\ UNCHANGED <<paragraph, args, panicked>>

\* the canvas reference goes out of scope: the borrow of the handle ends
ReleaseCanvas(s) ==
    /\ ~panicked
    /\ surfaces[s].held > 0
    /\ surfaces' = [surfaces EXCEPT ![s].held = @ - 1]
    /\ last' = [Call("release_canvas") EXCEPT !.surf = s]
    /\ UNCHANGED <<buffers, image, paragraph, args, panicked>>

\* self.native_mut().generationID()
generation_id(s) ==
    /\ ~panicked
    /\ Live(s)
    /\ FreeHandle(s)
    /\ last' = [Call("generation_id") EXCEPT !.surf = s, !.native = TRUE,
                                             !.value = surfaces[s].gen]
    /\ UNCHANGED <<surfaces, buffers, image, paragraph, args, panicked>>

ContentChangeModes == {"Discard", "Retain"}

\* self.native_mut().notifyContentWillChange(mode)
notify_content_will_change(s, mode) ==
    /\ ~panicked
    /\ Live(s)
    /\ FreeHandle(s)
    /\ MayChange(s)
    /\ surfaces' = [surfaces EXCEPT ![s] = content_changed(@)]
    /\ last' = [Call("notify_content_will_change") EXCEPT !.surf = s, !.native = TRUE,
                                                         !.result = mode]
    /\ UNCHANGED <<buffers, image, paragraph, args, panicked>>

IRect(l, t, r, b) == [left |-> l, top |-> t, right |-> r, bottom |-> b]

IsEmpty(rect) == rect.left >= rect.right \/ rect.top >= rect.bottom

Intersect(a, b) ==
    IRect(IF a.left > b.left THEN a.left ELSE b.left,
          IF a.top > b.top THEN a.top ELSE b.top,
          IF a.right < b.right THEN a.right ELSE b.right,
          IF a.bottom < b.bottom THEN a.bottom ELSE b.bottom)

\* the rectangle of a surface: (0, 0) to (width, height)
SurfaceRect(surf) == IRect(0, 0, surf.width, surf.height)

\* the image capturing the pixels of surface s inside rect: a copy, in
\* coordinates of its own
Captured(s, rect) ==
    [live |-> TRUE, surf |-> s, left |-> rect.left, top |-> rect.top,
     right |-> rect.right, bottom |-> rect.bottom,
     pixels |-> [p \in Points(rect.right - rect.left, rect.bottom - rect.top) |->
                    pixels_of(surfaces[s])[<<p[1] + rect.left, p[2] + rect.top>>]]]

\* the image of the whole surface
Snapshot(s) == Captured(s, SurfaceRect(surfaces[s]))

\* Image::from_ptr(..).unwrap()
image_snapshot(s) ==
    /\ ~panicked
    /\ Live(s)
    /\ FreeHandle(s)
    /\ LET call == [Call("image_snapshot") EXCEPT !.surf = s, !.native = TRUE,
                      !.info = ImageInfo(width(s), height(s), surfaces[s].colorType)]
       IN  IF SkSurface_makeImageSnapshot(surfaces[s].kind)
           THEN /\ last' = [call EXCEPT !.result = "some"]
                /\ image' = Snapshot(s)
                /\ UNCHANGED panicked
           ELSE Panic(call) /\ UNCHANGED image
    /\ UNCHANGED <<surfaces, buffers, paragraph, args>>

\* the emptiness looked for in the bounds asked, not in what is left of them
makeImageSnapshot_bounds_untrimmed(surf, bounds) ==
    surf.kind # "null" /\ ~IsEmpty(bounds)

\* the native snapshot of a subset: none of a null surface, none when the
\* bounds do not intersect the surface
SkSurface_makeImageSnapshot_bounds(surf, bounds) ==
    surf.kind # "null" /\ ~IsEmpty(Intersect(bounds, SurfaceRect(surf)))

\* Image::from_ptr(..): the image, or None
image_snapshot_with_bounds(s, bounds) ==
    /\ ~panicked
    /\ Live(s)
    /\ FreeHandle(s)
    /\ LET call == [Call("image_snapshot_with_bounds") EXCEPT
                      !.surf = s, !.native = TRUE, !.bounds = bounds]
       IN  IF SkSurface_makeImageSnapshot_bounds(surfaces[s], bounds)
           THEN /\ last' = [call EXCEPT !.result = "some"]
                /\ image' = Captured(s, Intersect(bounds, SurfaceRect(surfaces[s])))
           ELSE /\ last' = [call EXCEPT !.result = "none"]
                /\ UNCHANGED image
    /\ UNCHANGED <<surfaces, buffers, paragraph, args, panicked>>

---------------------------------------------------------------------------
(* Pixel transfer.  A Pixmap or Bitmap is a view of a caller's buffer: an  *)
(* ImageInfo and a row stride over bytes that hold its pixels.             *)

Shift(p, by) == <<p[1] + by[1], p[2] + by[2]>>
Unshift(p, by) == <<p[1] - by[1], p[2] - by[2]>>

\* dst_info.valid_pixels(dst_row_bytes, dst_pixels): the stride holds a row and
\* the buffer holds the rows
valid_pixels(info, row_bytes, len) ==
    /\ row_bytes >= min_row_bytes(info)
    /\ len >= compute_byte_size(info, row_bytes)

\* the destination points that src maps into the surface
ReadPoints(surf, dst_info, src) ==
    {p \in Points(dst_info.width, dst_info.height) :
        Shift(p, src) \in Points(surf.width, surf.height)}

\* the intersection of the rectangles not looked at
readPixels_copies_unclipped(surf, dst_info, dst_row_bytes, src) ==
    /\ surf.kind # "null"
    /\ convertible(surf.colorType, dst_info.colorType)
    /\ dst_row_bytes >= min_row_bytes(dst_info)

\* whether the native readPixels copies: the pixels are readable (raster or
\* GPU), convertible, the stride holds a row, the rectangles intersect
SkSurface_readPixels_copies(surf, dst_info, dst_row_bytes, src) ==
    /\ surf.kind # "null"
    /\ convertible(surf.colorType, dst_info.colorType)
    /\ dst_row_bytes >= min_row_bytes(dst_info)
    /\ ReadPoints(surf, dst_info, src) # {}

\* the offset subtracted where it is to be added
readPixels_unshifted(surf, dst_info, src) ==
    [p \in {q \in Points(dst_info.width, dst_info.height) :
                Unshift(q, src) \in Points(surf.width, surf.height)} |->
        convert(pixels_of(surf)[Unshift(p, src)], surf.colorType, dst_info.colorType)]

\* the pixels the native readPixels copies, at their destination points
SkSurface_readPixels(surf, dst_info, src) ==
    [p \in ReadPoints(surf, dst_info, src) |->
        convert(pixels_of(surf)[Shift(p, src)], surf.colorType, dst_info.colorType)]

\* the native read into the destination view of buffer b
readPixels_into(call, s, b, dst_info, dst_row_bytes, src) ==
    IF SkSurface_readPixels_copies(surfaces[s], dst_info, dst_row_bytes, src)
    THEN /\ buffers' = [buffers EXCEPT ![b].bytes =
                           Store(@, dst_info.colorType, dst_row_bytes,
                                 SkSurface_readPixels(surfaces[s], dst_info, src))]
         /\ last' = [call EXCEPT !.result = "true", !.native = TRUE,
                                 !.strideNative = dst_row_bytes]
    ELSE /\ last' = [call EXCEPT !.result = "false", !.native = TRUE,
                                 !.strideNative = dst_row_bytes]
         /\ UNCHANGED buffers

ReadCall(op, s, b, info, row_bytes, src) ==
    [Call(op) EXCEPT !.surf = s, !.buf = b, !.info = info, !.len = buffers[b].len,
                     !.strideChecked = row_bytes, !.at = src]

\* the native read called without the check of the destination
read_pixels_unchecked(s, b, dst_info, dst_row_bytes, src) ==
    /\ ~panicked
    /\ Live(s)
    /\ FreeHandle(s)
    /\ Unborrowed(b)
    /\ readPixels_into(ReadCall("read_pixels", s, b, dst_info, dst_row_bytes, src),
                       s, b, dst_info, dst_row_bytes, src)
    /\ UNCHANGED <<surfaces, image, paragraph, args, panicked>>

\* if !dst_info.valid_pixels(dst_row_bytes, dst_pixels) { return false; }, then
\* the native readPixels1
read_pixels(s, b, dst_info, dst_row_bytes, src) ==
    /\ ~panicked
    /\ Live(s)
    /\ FreeHandle(s)
    /\ Unborrowed(b)
    /\ LET call == ReadCall("read_pixels", s, b, dst_info, dst_row_bytes, src)
       IN  IF ~valid_pixels(dst_info, dst_row_bytes, buffers[b].len)
           THEN /\ last' = [call EXCEPT !.result = "false"]
                /\ UNCHANGED buffers
           ELSE readPixels_into(call, s, b, dst_info, dst_row_bytes, src)
    /\ UNCHANGED <<surfaces, image, paragraph, args, panicked>>

\* self.native_mut().readPixels(dst.native(), src.x, src.y)
read_pixels_to_pixmap(s, b, info, row_bytes, src) ==
    /\ ~panicked
    /\ Live(s)
    /\ FreeHandle(s)
    /\ Unborrowed(b)
    /\ valid_pixels(info, row_bytes, buffers[b].len)
    /\ readPixels_into(ReadCall("read_pixels_to_pixmap", s, b, info, row_bytes, src),
                       s, b, info, row_bytes, src)
    /\ UNCHANGED <<surfaces, image, paragraph, args, panicked>>

\* self.native_mut().readPixels2(bitmap.native(), src.x, src.y)
read_pixels_to_bitmap(s, b, info, row_bytes, src) ==
    /\ ~panicked
    /\ Live(s)
    /\ FreeHandle(s)
    /\ Unborrowed(b)
    /\ valid_pixels(info, row_bytes, buffers[b].len)
    /\ readPixels_into(ReadCall("read_pixels_to_bitmap", s, b, info, row_bytes, src),
                       s, b, info, row_bytes, src)
    /\ UNCHANGED <<surfaces, image, paragraph, args, panicked>>

\* the source copied unclipped: the points of the source shifted by dst
WritePoints_unclipped(surf, src_info, dst) ==
    {Shift(q, dst) : q \in Points(src_info.width, src_info.height)}

\* the points of the surface that the source, shifted by dst, covers
WritePoints(surf, src_info, dst) ==
    {p \in Points(surf.width, surf.height) :
        Unshift(p, dst) \in Points(src_info.width, src_info.height)}

\* every row of the surface given the first row of the source
writePixels_one_row(surf, src_pixels, src_info, dst) ==
    IF surf.kind # "null" /\ convertible(src_info.colorType, surf.colorType)
    THEN [p \in WritePoints(surf, src_info, dst) |->
             convert(src_pixels[<<p[1] - dst[1], 0>>], src_info.colorType, surf.colorType)]
    ELSE <<>>

\* the pixels the native writePixels copies, at their points of the surface:
\* none into a null surface, none that cannot be converted
SkSurface_writePixels(surf, src_pixels, src_info, dst) ==
    IF surf.kind # "null" /\ convertible(src_info.colorType, surf.colorType)
    THEN [p \in WritePoints(surf, src_info, dst) |->
             convert(src_pixels[Unshift(p, dst)], src_info.colorType, surf.colorType)]
    ELSE <<>>

\* the native write from the source view of buffer b
writePixels_from(op, s, b, info, row_bytes, dst) ==
    /\ ~panicked
    /\ Live(s)
    /\ FreeHandle(s)
    /\ Unborrowed(b)
    /\ valid_pixels(info, row_bytes, buffers[b].len)
    /\ LET src_pixels == Decode(buffers[b].bytes, info, row_bytes)
           patch == SkSurface_writePixels(surfaces[s], src_pixels, info, dst)
           wrote == [info |-> info, at |-> dst, pixels |-> src_pixels]
       IN  IF DOMAIN patch # {}
           THEN /\ MayChange(s)
                /\ put_pixels(s, [content_changed(surfaces[s]) EXCEPT !.wrote = wrote],
                              patch, FALSE)
           ELSE UNCHANGED <<surfaces, buffers, image>>
    /\ last' = [Call(op) EXCEPT !.surf = s, !.buf = b, !.info = info, !.native = TRUE,
                                !.len = buffers[b].len, !.strideNative = row_bytes,
                                !.at = dst]
    /\ UNCHANGED <<paragraph, args, panicked>>

\* self.native_mut().writePixels(src.native(), dst.x, dst.y)
write_pixels_from_pixmap(s, b, info, row_bytes, dst) ==
    writePixels_from("write_pixels_from_pixmap", s, b, info, row_bytes, dst)

\* self.native_mut().writePixels1(bitmap.native(), dst.x, dst.y)
write_pixels_from_bitmap(s, b, info, row_bytes, dst) ==
    writePixels_from("write_pixels_from_bitmap", s, b, info, row_bytes, dst)

---------------------------------------------------------------------------
(* Flushing: the commands of a GPU surface issued to the 3D API.  A raster *)
(* or null surface records no commands.                                    *)

\* the canvas dropped with the flush
flush_drops_canvas(surf) == [surf EXCEPT !.pending = 0, !.canvas = 0]

\* the native flush: the pending commands of a GPU surface are issued
SkSurface_flush(surf) ==
    IF surf.kind = "gpu" THEN [surf EXCEPT !.pending = 0] ELSE surf

\* whether semaphores were submitted: none are without a GPU
SemaphoresSubmitted(surf) == IF surf.kind = "gpu" THEN {"Yes", "No"} ELSE {"No"}

\* a call that flushes surface s and returns result
Flushed(op, s, result) ==
    /\ ~panicked
    /\ Live(s)
    /\ FreeHandle(s)
    /\ surfaces' = [surfaces EXCEPT ![s] = SkSurface_flush(@)]
    /\ last' = [Call(op) EXCEPT !.surf = s, !.native = TRUE, !.result = result]
    /\ UNCHANGED <<buffers, image, paragraph, args, panicked>>

\* self.native_mut().flushAndSubmit(false)
flush_and_submit(s) == Flushed("flush_and_submit", s, "unit")

\* self.native_mut().flushAndSubmit(true)
flush_submit_and_sync_cpu(s) == Flushed("flush_submit_and_sync_cpu", s, "unit")

\* self.native_mut().resolveMSAA(): a resolve command joins the commands that
\* are pending; nothing is issued
resolve_msaa(s) ==
    /\ ~panicked
    /\ Live(s)
    /\ FreeHandle(s)
    /\ last' = [Call("resolve_msaa") EXCEPT !.surf = s, !.native = TRUE]
    /\ UNCHANGED <<surfaces, buffers, image, paragraph, args, panicked>>

\* self.native_mut().flush(access, info.native())
flush_with_access_info(s) ==
    \E submitted \in SemaphoresSubmitted(surfaces[s]) :
       Flushed("flush_with_access_info", s, submitted)

\* self.native_mut().flush1(info.native(), new_state..)
flush_with_mutable_state(s) ==
    \E submitted \in SemaphoresSubmitted(surfaces[s]) :
       Flushed("flush_with_mutable_state", s, submitted)

\* self.flush_with_mutable_state(&info, None); the result is dropped
flush(s) == Flushed("flush", s, "unit")

FlushCalls ==
    {"flush_and_submit", "flush_submit_and_sync_cpu", "resolve_msaa", "flush",
     "flush_with_access_info", "flush_with_mutable_state"}

---------------------------------------------------------------------------
(* Characterizations and deferred display lists (feature "gpu")            *)

\* ctx_ok: the graphics context can make the render target described
SkSurface_MakeRenderTarget2(c, ctx_ok) ==
    /\ c.valid
    /\ PositiveDims(c.info.width, c.info.height)
    /\ raster_supported(c.info.colorType)
    /\ ctx_ok

\* the color type of the characterization not looked at
RenderTargetInfo_n32(c) == N32Info(c.info.width, c.info.height)

\* the ImageInfo of the render target made for a characterization
RenderTargetInfo(c) == c.info

new_render_target_with_characterization(c, ctx_ok) ==
    /\ ~panicked
    /\ FreeSlots # {}
    /\ LET call == [Call("new_render_target_with_characterization") EXCEPT
                      !.info = c.info, !.charac = c, !.native = TRUE]
       IN  IF SkSurface_MakeRenderTarget2(c, ctx_ok)
           THEN Created([NativeSurface("gpu", RenderTargetInfo(c), 0) EXCEPT !.madeFor = c],
                        call)
           ELSE /\ last' = [call EXCEPT !.result = "none"]
                /\ UNCHANGED surfaces
    /\ UNCHANGED <<buffers, image, paragraph, args, panicked>>

\* the native isCompatible: a GPU surface with the properties of a valid
\* characterization
SkSurface_isCompatible(surf, c) ==
    surf.kind = "gpu" /\ c.valid /\ c.info = info_of(surf)

\* self.native().isCompatible(characterization.native())
is_compatible(s, c) ==
    /\ ~panicked
    /\ Live(s)
    /\ FreeHandle(s)
    /\ last' = [Call("is_compatible") EXCEPT
                  !.surf = s, !.charac = c, !.native = TRUE,
                  !.result = IF SkSurface_isCompatible(surfaces[s], c) THEN "true" ELSE "false"]
    /\ UNCHANGED <<surfaces, buffers, image, paragraph, args, panicked>>

\* the native characterize: supported by a GPU surface, the characterization
\* filled in is that of the surface
SkSurface_characterize(surf) ==
    IF surf.kind = "gpu" THEN Characterization(info_of(surf)) ELSE NoCharacterization

\* self.native().characterize(sc.native_mut()).if_true_some(sc)
characterize(s) ==
    /\ ~panicked
    /\ Live(s)
    /\ FreeHandle(s)
    /\ LET sc == SkSurface_characterize(surfaces[s])
       IN  last' = [Call("characterize") EXCEPT
                      !.surf = s, !.charac = sc, !.native = TRUE,
                      !.result = IF sc.valid THEN "some" ELSE "none"]
    /\ UNCHANGED <<surfaces, buffers, image, paragraph, args, panicked>>

\* the offset not looked at
draw_at_any_offset(surf, c, offset) ==
    IF ~SkSurface_isCompatible(surf, c)
    THEN {[result |-> "false", drawn |-> FALSE]}
    ELSE {[result |-> "true", drawn |-> TRUE]}

\* the outcomes of the native draw of a display list recorded for
\* characterization c: skipped, false returned, when the list is not
\* compatible with the surface; ignored when the offset is not zero
SkSurface_draw(surf, c, offset) ==
    IF ~SkSurface_isCompatible(surf, c)
    THEN {[result |-> "false", drawn |-> FALSE]}
    ELSE IF offset # <<0, 0>>
         THEN {[result |-> r, drawn |-> FALSE] : r \in {"true", "false"}}
         ELSE {[result |-> "true", drawn |-> TRUE]}

\* a display list recorded for characterization c handed to the native draw of
\* surface s
DisplayListDrawn(op, s, c, offset) ==
    /\ ~panicked
    /\ Live(s)
    /\ FreeHandle(s)
    /\ \E out \in SkSurface_draw(surfaces[s], c, offset) :
          /\ IF out.drawn
             THEN /\ MayChange(s)
                  /\ put_pixels(s, [content_changed(surfaces[s]) EXCEPT !.wrote = NoWrite],
                                Painted(surfaces[s]), TRUE)
             ELSE UNCHANGED <<surfaces, buffers, image>>
          /\ last' = [Call(op) EXCEPT !.surf = s, !.charac = c, !.at = offset,
                                      !.native = TRUE, !.result = out.result]
    /\ UNCHANGED <<paragraph, args, panicked>>

\* sb::C_SkSurface_draw(self.native_mut(), .., offset.x, offset.y)
draw_display_list_with_offset(s, c, offset) ==
    DisplayListDrawn("draw_display_list_with_offset", s, c, offset)

\* IVector::default()
IVector_default == <<0, 0>>

\* self.draw_display_list_with_offset(deferred_display_list, IVector::default())
draw_display_list(s, c) ==
    DisplayListDrawn("draw_display_list", s, c, IVector_default)

DisplayListCalls == {"draw_display_list_with_offset", "draw_display_list"}

---------------------------------------------------------------------------
(* The paragraph *)

\* no thread is inside a call on the paragraph: what a call through
\* &mut self requires
Exclusive == \A t \in Threads : paragraph.inside[t] = "idle"

\* the native layout: the text shaped and broken into lines for the width;
\* n glyphs are left that no font has
C_Paragraph_layout(p, w, n) ==
    [p EXCEPT !.state = "laidout", !.width = w, !.unresolved = n, !.shaped = TRUE]

\* sb::C_Paragraph_layout(self.native_mut(), width)
layout(w) ==
    /\ ~panicked
    /\ Exclusive
    /\ \E n \in 0 .. MaxUnresolved : paragraph' = C_Paragraph_layout(paragraph, w, n)
    /\ last' = [Call("layout") EXCEPT !.value = w, !.native = TRUE]
    /\ UNCHANGED <<surfaces, buffers, image, args, panicked>>

\* the native markDirty: the cached layout is no longer valid; the text and
\* the style stay
C_Paragraph_markDirty(p) == [p EXCEPT !.state = "dirty"]

\* the text dropped with the cached layout
mark_dirty_discards ==
    /\ ~panicked
    /\ Exclusive
    /\ paragraph' = [C_Paragraph_markDirty(paragraph) EXCEPT !.text = 0]
    /\ last' = [Call("mark_dirty") EXCEPT !.native = TRUE]
    /\ UNCHANGED <<surfaces, buffers, image, args, panicked>>

\* sb::C_Paragraph_markDirty(self.native_mut())
mark_dirty ==
    /\ ~panicked
    /\ Exclusive
    /\ paragraph' = C_Paragraph_markDirty(paragraph)
    /\ last' = [Call("mark_dirty") EXCEPT !.native = TRUE]
    /\ UNCHANGED <<surfaces, buffers, image, args, panicked>>

\* self.native().fWidth
max_width ==
    /\ ~panicked
    /\ last' = [Call("max_width") EXCEPT !.value = paragraph.width]
    /\ UNCHANGED <<surfaces, buffers, image, paragraph, args, panicked>>

\* the native unresolvedGlyphs: the count of the last shaping, negative while
\* the paragraph is not shaped
C_Paragraph_unresolvedGlyphs(p) == IF p.state = "laidout" THEN p.unresolved ELSE -1

\* the count cast to usize: a negative count becomes a large one
as_usize(n) == [some |-> TRUE, val |-> IF n >= 0 THEN n ELSE MaxUnresolved + 1]

\* .try_into().ok() of an i32 to a usize: None for a negative value
try_into_ok(n) == IF n >= 0 THEN [some |-> TRUE, val |-> n] ELSE [some |-> FALSE, val |-> 0]

\* unsafe { sb::C_Paragraph_unresolvedGlyphs(self.native_mut()) }.try_into().ok()
unresolved_glyphs ==
    /\ ~panicked
    /\ Exclusive
    /\ LET count == try_into_ok(C_Paragraph_unresolvedGlyphs(paragraph))
       IN  last' = [Call("unresolved_glyphs") EXCEPT
                      !.native = TRUE,
                      !.result = IF count.some THEN "some" ELSE "none",
                      !.value = count.val]
    /\ UNCHANGED <<surfaces, buffers, image, paragraph, args, panicked>>

\* the methods that take &self and call the native method through
\* self.native_mut_force()
SharedCalls ==
    {"paint", "get_rects_for_range", "get_rects_for_placeholders",
     "get_glyph_position_at_coordinate", "get_word_boundary", "get_line_metrics",
     "line_number"}

\* thread t, holding a &Paragraph, calls one of these methods: the native
\* method runs with a mutable pointer to the paragraph
native_mut_force(t, op) ==
    /\ ~panicked
    /\ paragraph.inside[t] = "idle"
    /\ paragraph' = [paragraph EXCEPT !.inside[t] = op]
    /\ last' = [Call(op) EXCEPT !.native = TRUE, !.value = t]
    /\ UNCHANGED <<surfaces, buffers, image, args, panicked>>

\* the native method of thread t returns
Return(t) ==
    /\ ~panicked
    /\ paragraph.inside[t] # "idle"
    /\ paragraph' = [paragraph EXCEPT !.inside[t] = "idle"]
    /\ last' = [Call("return") EXCEPT !.value = t]
    /\ UNCHANGED <<surfaces, buffers, image, args, panicked>>

\* range.start.try_into(), range.end.try_into(): the index as a u32
index_converts(i) == WideLeq(i, U32Max)

get_rects_for_range(start, end) ==
    /\ ~panicked
    /\ LET call == [Call("get_rects_for_range") EXCEPT !.range = <<start, end>>]
       IN  IF index_converts(start) /\ index_converts(end)
           THEN last' = [call EXCEPT !.result = "some", !.native = TRUE] /\ UNCHANGED panicked
           ELSE Panic(call)
    /\ UNCHANGED <<surfaces, buffers, image, paragraph, args>>

---------------------------------------------------------------------------
(* The specification *)

\* the sizes asked of new_null: the prepared one, and the 100 x 100 of the scenario
NullSizes == {<<args.info.width, args.info.height>>, <<100, 100>>}

\* the content of the surface has not changed since it was made
Fresh(s) == surfaces[s].gen = 0

\* the caller lends a buffer to a surface, draws once, and gets the buffer
\* back
NextDirect ==
    \/ \E b \in BufferIds, len \in BufLens : AllocBuffer(b, len)
    \/ \E b \in BufferIds : CallerWriteBuffer(b)
    \/ \E b \in BufferIds : CallerReadBuffer(b)
    \/ \E b \in BufferIds : FreeBuffer(b)
    \/ \E b \in BufferIds : new_raster_direct(b, args.info, args.rowBytes)
    \/ \E s \in SurfaceIds : Fresh(s) /\ Draw(s)
    \/ \E s \in SurfaceIds : DropSurface(s)

\* the surface a factory made when there was none: it is in the first slot,
\* a surface derived from it in the next
Original(s) == s = 1

\* every way a surface comes to exist: the caller's one buffer is long enough
\* for any prepared size, the sample counts are left at their default, the
\* surfaces are derived from the first one
NextFactories ==
    \/ \E b \in BufferIds : b = 1 /\ AllocBuffer(b, MaxBufLen)
    \/ \E b \in BufferIds : new_raster_direct(b, args.info, args.rowBytes)
    \/ new_raster(args.info, args.rowBytes)
    \/ new_raster_n32_premul(args.info.width, args.info.height)
    \/ new_null(args.info.width, args.info.height)
    \/ \E ctx_ok \in BOOLEAN : new_render_target(args.info, NoCount, ctx_ok)
    \/ \E s \in SurfaceIds : Original(s) /\ new_surface(s, args.info)
    \/ \E s \in SurfaceIds :
          Original(s) /\ new_surface_with_dimensions(s, args.info.width, args.info.height)
    \/ \E s \in SurfaceIds : DropSurface(s)

\* no surface exists: the scenarios below work on one surface at a time
NoSurfaces == FreeSlots = SurfaceIds

\* handles shared and dropped, and the calls whose result may be absent
NextHandles ==
    \/ NoSurfaces /\ new_raster_n32_premul(args.info.width, args.info.height)
    \/ NoSurfaces /\ \E size \in NullSizes : new_null(size[1], size[2])
    \/ NoSurfaces /\ \E texture \in BackendTextures, count \in SampleCountOpts, ctx_ok \in BOOLEAN :
                        from_backend_texture(texture, count, ctx_ok)
    \/ \E s \in SurfaceIds : CloneSurface(s)
    \/ \E s \in SurfaceIds : DropSurface(s)
    \/ \E s \in SurfaceIds : image_snapshot(s)
    \/ \E start \in GlyphIndices, end \in GlyphIndices : get_rects_for_range(start, end)

\* the paragraph laid out, invalidated and queried
NextParagraph ==
    \/ \E w \in Widths : layout(w)
    \/ mark_dirty
    \/ max_width
    \/ unresolved_glyphs
    \/ \E start \in GlyphIndices, end \in GlyphIndices : get_rects_for_range(start, end)

\* a raster surface that allocates its pixels, its handles cloned and dropped
NextRaster ==
    \/ NoSurfaces /\ new_raster(args.info, args.rowBytes)
    \/ \E s \in SurfaceIds : CloneSurface(s)
    \/ \E s \in SurfaceIds : Fresh(s) /\ Draw(s)
    \/ \E s \in SurfaceIds : DropSurface(s)

\* the paragraph laid out once and shared by the threads
NextThreads ==
    \/ paragraph.state = "built" /\ layout(MaxWidth)
    \/ \E t \in Threads, op \in SharedCalls :
          paragraph.state = "laidout" /\ native_mut_force(t, op)
    \/ \E t \in Threads : Return(t)

\* one surface, its handles, its canvas and its content id
NextCanvas ==
    \/ NoSurfaces /\ new_raster_n32_premul(args.info.width, args.info.height)
    \/ NoSurfaces /\ new_null(args.info.width, args.info.height)
    \/ \E s \in SurfaceIds : CloneSurface(s)
    \/ \E s \in SurfaceIds : DropSurface(s)
    \/ \E s \in SurfaceIds : Draw(s)
    \/ \E s \in SurfaceIds : canvas(s)
    \/ \E s \in SurfaceIds : CanvasDraw(s)
    \/ \E s \in SurfaceIds : ReleaseCanvas(s)
    \/ \E s \in SurfaceIds : generation_id(s)
    \/ \E s \in SurfaceIds, mode \in ContentChangeModes : notify_content_will_change(s, mode)

\* the offsets of a transfer: none, up and left, right, down
Offsets == {<<0, 0>>, <<-1, -1>>, <<1, 0>>, <<0, 1>>}

\* the bounds asked of a snapshot: as large as the largest surface, placed at
\* the offsets, and an empty rectangle
BoundsRects ==
    {IRect(at[1], at[2], at[1] + MaxDim, at[2] + MaxDim) : at \in Offsets}
       \cup {IRect(0, 0, 0, 0)}

\* the stride that goes with the prepared ImageInfo: the one given, or the
\* minimum
ArgRowBytes == effective_row_bytes(args.info, args.rowBytes)

\* the lengths of the caller's buffer: what the prepared ImageInfo and stride
\* take, and a byte less
ArgLens ==
    {len \in BufLens : compute_byte_size(args.info, ArgRowBytes) - len \in {0, 1}}

\* the color types with pixels
PixelTypes == {"Alpha8", "RGBA8888"}

\* the surfaces of the transfers: a pixel, or the largest size, square
SurfaceInfos == {ImageInfo(size, size, ct) : size \in {1, MaxDim}, ct \in PixelTypes}

\* the caller has no buffer: the transfers work with one buffer at a time
NoBuffers == \A b \in BufferIds : ~buffers[b].live

\* the buffer holds what the caller put there: zeros, or the pattern
Prepared(b) == buffers[b].bytes \in {[i \in 1 .. buffers[b].len |-> 0], Pattern(buffers[b].len)}

\* the buffer holds the caller's pattern
Patterned(b) == buffers[b].bytes = Pattern(buffers[b].len)

\* one surface drawn to, written to and notified, and the images taken of it
NextSnapshot ==
    \/ NoSurfaces /\ new_raster(args.info, None)
    \/ NoSurfaces /\ new_null(args.info.width, args.info.height)
    \/ \E b \in BufferIds :
          NoBuffers /\ AllocBuffer(b, compute_byte_size(args.info, ArgRowBytes))
    \/ \E b \in BufferIds : ~Patterned(b) /\ CallerWriteBuffer(b)
    \/ \E s \in SurfaceIds : Draw(s)
    \/ \E s \in SurfaceIds, mode \in ContentChangeModes : notify_content_will_change(s, mode)
    \/ \E s \in SurfaceIds, b \in BufferIds, dst \in Offsets :
          Fresh(s) /\ Patterned(b) /\ write_pixels_from_bitmap(s, b, args.info, ArgRowBytes, dst)
    \/ \E s \in SurfaceIds : image_snapshot(s)
    \/ \E s \in SurfaceIds, bounds \in BoundsRects : image_snapshot_with_bounds(s, bounds)
    \/ \E s \in SurfaceIds : DropSurface(s)

\* pixels read from one surface, fresh or drawn to once, into a buffer the
\* caller has prepared
NextRead ==
    \/ \E info \in SurfaceInfos : NoSurfaces /\ new_raster(info, None)
    \/ NoSurfaces /\ new_null(MaxDim, MaxDim)
    \/ \E b \in BufferIds, len \in ArgLens : NoBuffers /\ AllocBuffer(b, len)
    \/ \E b \in BufferIds : CallerWriteBuffer(b)
    \/ \E b \in BufferIds : FreeBuffer(b)
    \/ \E s \in SurfaceIds : Fresh(s) /\ Draw(s)
    \/ \E s \in SurfaceIds, b \in BufferIds, src \in Offsets :
          Prepared(b) /\ read_pixels(s, b, args.info, ArgRowBytes, src)
    \/ \E s \in SurfaceIds, b \in BufferIds, src \in Offsets :
          Prepared(b) /\ read_pixels_to_pixmap(s, b, args.info, ArgRowBytes, src)
    \/ \E s \in SurfaceIds, b \in BufferIds, src \in Offsets :
          Prepared(b) /\ read_pixels_to_bitmap(s, b, args.info, ArgRowBytes, src)
    \/ \E s \in SurfaceIds : DropSurface(s)

\* the caller's pattern written into one fresh surface, which may be drawn to
\* after that, and read back into a zeroed buffer
NextWrite ==
    \/ \E info \in SurfaceInfos : NoSurfaces /\ new_raster(info, None)
    \/ NoSurfaces /\ new_null(MaxDim, MaxDim)
    \/ \E b \in BufferIds :
          NoBuffers /\ AllocBuffer(b, compute_byte_size(args.info, ArgRowBytes))
    \/ \E b \in BufferIds : CallerWriteBuffer(b)
    \/ \E b \in BufferIds : FreeBuffer(b)
    \/ \E s \in SurfaceIds : ~Fresh(s) /\ Draw(s)
    \/ \E s \in SurfaceIds, b \in BufferIds, dst \in Offsets :
          Fresh(s) /\ Patterned(b) /\ write_pixels_from_pixmap(s, b, args.info, ArgRowBytes, dst)
    \/ \E s \in SurfaceIds, b \in BufferIds, dst \in Offsets :
          Fresh(s) /\ Patterned(b) /\ write_pixels_from_bitmap(s, b, args.info, ArgRowBytes, dst)
    \/ \E s \in SurfaceIds, b \in BufferIds :
          ~Patterned(b) /\ read_pixels(s, b, args.info, ArgRowBytes, <<0, 0>>)
    \/ \E s \in SurfaceIds : DropSurface(s)

\* the sizes and formats asked of a derived surface: a pixel, no width, and
\* a pixel of no color type
DerivedInfos ==
    {ImageInfo(1, 1, args.info.colorType), ImageInfo(0, 1, args.info.colorType),
     ImageInfo(1, 1, "Unknown")}

\* the original surface, and no other surface
Alone(s) == Original(s) /\ FreeSlots = SurfaceIds \ {s}

\* a surface of each backing kind, everything that is called on it, and the
\* surfaces derived from it
NextOps ==
    \/ NoSurfaces /\ new_raster(args.info, None)
    \/ NoSurfaces /\ new_null(args.info.width, args.info.height)
    \/ NoSurfaces /\ new_render_target(args.info, NoCount, TRUE)
    \/ \E b \in BufferIds :
          NoBuffers /\ b = 1 /\ AllocBuffer(b, compute_byte_size(args.info, ArgRowBytes))
    \/ \E b \in BufferIds : ~Patterned(b) /\ CallerWriteBuffer(b)
    \/ \E s \in SurfaceIds : Original(s) /\ Fresh(s) /\ Draw(s)
    \/ \E s \in SurfaceIds : Original(s) /\ Fresh(s) /\ notify_content_will_change(s, "Discard")
    \/ \E s \in SurfaceIds : Original(s) /\ ~image.live /\ image_snapshot(s)
    \/ \E s \in SurfaceIds, b \in BufferIds :
          Original(s) /\ Fresh(s) /\ Patterned(b)
             /\ write_pixels_from_pixmap(s, b, args.info, ArgRowBytes, <<0, 0>>)
    \/ \E s \in SurfaceIds, b \in BufferIds :
          Original(s) /\ Prepared(b) /\ read_pixels(s, b, args.info, ArgRowBytes, <<0, 0>>)
    \/ \E s \in SurfaceIds : Original(s) /\ flush_and_submit(s)
    \/ \E s \in SurfaceIds : Original(s) /\ flush_submit_and_sync_cpu(s)
    \/ \E s \in SurfaceIds : Original(s) /\ resolve_msaa(s)
    \/ \E s \in SurfaceIds : Original(s) /\ flush(s)
    \/ \E s \in SurfaceIds : Original(s) /\ flush_with_access_info(s)
    \/ \E s \in SurfaceIds : Original(s) /\ flush_with_mutable_state(s)
    \/ \E s \in SurfaceIds, info \in DerivedInfos : Alone(s) /\ new_surface(s, info)
    \/ \E s \in SurfaceIds, info \in DerivedInfos :
          Alone(s) /\ new_surface_with_dimensions(s, info.width, info.height)
    \/ \E s \in SurfaceIds : DropSurface(s)

\* a surface of each backing kind, the surfaces derived from it, and the
\* pixels drawn and written to each of them
NextDerive ==
    \/ \E b \in BufferIds :
          NoBuffers /\ b = 1 /\ AllocBuffer(b, compute_byte_size(args.info, ArgRowBytes))
    \/ \E b \in BufferIds : ~Patterned(b) /\ CallerWriteBuffer(b)
    \/ \E b \in BufferIds : NoSurfaces /\ new_raster_direct(b, args.info, None)
    \/ NoSurfaces /\ new_raster(args.info, None)
    \/ NoSurfaces /\ new_null(args.info.width, args.info.height)
    \/ NoSurfaces /\ new_render_target(args.info, NoCount, TRUE)
    \/ \E s \in SurfaceIds, info \in DerivedInfos \cup {args.info} :
          Alone(s) /\ new_surface(s, info)
    \/ \E s \in SurfaceIds, info \in DerivedInfos \cup {args.info} :
          Alone(s) /\ new_surface_with_dimensions(s, info.width, info.height)
    \/ \E s \in SurfaceIds : Fresh(s) /\ Draw(s)
    \/ \E s \in SurfaceIds, b \in BufferIds :
          Fresh(s) /\ Patterned(b)
             /\ write_pixels_from_pixmap(s, b, args.info, ArgRowBytes, <<0, 0>>)
    \/ \E s \in SurfaceIds : DropSurface(s)

\* the characterizations a caller holds: the default one, that of a surface
\* of the prepared ImageInfo, that of a surface of one pixel
Characterizations ==
    {NoCharacterization, Characterization(args.info),
     Characterization(ImageInfo(1, 1, args.info.colorType))}

\* GPU surfaces and raster surfaces, the characterizations asked of them, and
\* the display lists drawn to them
NextGpu ==
    \/ \E c \in Characterizations, ctx_ok \in BOOLEAN :
          NoSurfaces /\ new_render_target_with_characterization(c, ctx_ok)
    \/ NoSurfaces /\ new_render_target(args.info, NoCount, TRUE)
    \/ NoSurfaces /\ new_raster(args.info, None)
    \/ \E s \in SurfaceIds, c \in Characterizations : is_compatible(s, c)
    \/ \E s \in SurfaceIds : characterize(s)
    \/ \E s \in SurfaceIds : Draw(s)
    \/ \E s \in SurfaceIds : flush_and_submit(s)
    \/ \E s \in SurfaceIds, c \in Characterizations, offset \in Offsets :
          draw_display_list_with_offset(s, c, offset)
    \/ \E s \in SurfaceIds, c \in Characterizations : draw_display_list(s, c)
    \/ \E s \in SurfaceIds : DropSurface(s)

Next ==
    \/ NextDirect
    \/ NextOps
    \/ NextGpu
    \/ NextThreads
    \/ NextRaster
    \/ NextDerive
    \/ NextSnapshot
    \/ NextRead
    \/ NextWrite
    \/ NextCanvas
    \/ NextFactories
    \/ NextHandles
    \/ NextParagraph
    \/ \E count \in SampleCountOpts, ctx_ok \in BOOLEAN :
          new_render_target(args.info, count, ctx_ok)

\* the paragraph calls take nothing from the prepared image info
InitParagraph == Init /\ args = [info |-> N32Info(1, 1), rowBytes |-> None]

\* the calls of NextHandles and NextCanvas take a size, and neither a format
\* nor a row stride
InitHandles == Init /\ args.rowBytes = None /\ args.info.colorType = "RGBA8888"

\* the snapshots are taken of surfaces with the minimum stride, of a color
\* type with pixels
InitSnapshot == Init /\ args.rowBytes = None /\ args.info.colorType \in PixelTypes

\* the view a transfer is made through has a color type with pixels
InitRead == Init /\ args.info.colorType \in PixelTypes

\* the source of a write is a view that exists: it has a size, a color type
\* with pixels, and the minimum stride
InitWrite == Init /\ PositiveDims(args.info.width, args.info.height)
                  /\ args.info.colorType \in PixelTypes
                  /\ args.rowBytes = None

Spec == Init /\ [][Next]_vars
SpecDirect == Init /\ [][NextDirect]_vars
SpecFactories == Init /\ [][NextFactories]_vars
SpecHandles == InitHandles /\ [][NextHandles]_vars
SpecCanvas == InitHandles /\ [][NextCanvas]_vars
SpecSnapshot == InitSnapshot /\ [][NextSnapshot]_vars
SpecRead == InitRead /\ [][NextRead]_vars
SpecWrite == InitWrite /\ [][NextWrite]_vars
SpecOps == InitWrite /\ [][NextOps]_vars
SpecDerive == InitWrite /\ [][NextDerive]_vars
SpecGpu == InitWrite /\ [][NextGpu]_vars
SpecParagraph == InitParagraph /\ [][NextParagraph]_vars
SpecThreads == InitParagraph /\ [][NextThreads]_vars
SpecRaster == Init /\ [][NextRaster]_vars

---------------------------------------------------------------------------
(* Properties *)

DirectCall == last.op = "new_raster_direct"

\* the stride new_raster_direct is to use: the one given, else the minimum
GivenStride ==
    IF args.rowBytes.some THEN args.rowBytes.val ELSE min_row_bytes(args.info)

C2_ShortBufferIsNone ==
    (DirectCall /\ last.len < compute_byte_size(args.info, GivenStride))
       => (last.result = "none" /\ ~last.native)

C2_Witness ==
    /\ DirectCall
    /\ PositiveDims(args.info.width, args.info.height)
    /\ raster_supported(args.info.colorType)
    /\ last.len > 0
    /\ last.len < compute_byte_size(args.info, GivenStride)
    /\ last.result = "none"

\* C3: with positive dimensions, a supported format, the minimum stride and a
\* buffer of exactly the computed byte size, new_raster_direct returns a
\* surface, and that surface can be drawn to through its canvas.
C3_ExactBufferIsSome ==
    (/\ DirectCall
     /\ PositiveDims(args.info.width, args.info.height)
     /\ raster_supported(args.info.colorType)
     /\ args.rowBytes \in {None, Some(min_row_bytes(args.info))}
     /\ last.len = compute_byte_size(args.info, min_row_bytes(args.info)))
       => /\ last.result = "some"
          /\ surfaces[last.surf].kind = "direct"
          /\ ENABLED Draw(last.surf)

\* the surface over a buffer of exactly the computed size, after a draw
C3_Witness ==
    \E s \in SurfaceIds :
       /\ surfaces[s].kind = "direct"
       /\ args.rowBytes = Some(min_row_bytes(args.info))
       /\ buffers[surfaces[s].buf].len
             = compute_byte_size(args.info, min_row_bytes(args.info))
       /\ buffers[surfaces[s].buf].data = 1
       /\ last.op = "draw"

C5_StrideInEffect ==
    DirectCall =>
       /\ last.strideChecked = GivenStride
       /\ last.native => last.strideNative = GivenStride

\* no stride given, and the native factory reached with the minimum stride
C5_Witness ==
    /\ DirectCall
    /\ ~args.rowBytes.some
    /\ min_row_bytes(args.info) > 0
    /\ last.native
    /\ last.result = "some"

\* C6: new_raster_n32_premul returns None exactly when the width or the height
\* is zero or negative.
C6_N32NoneIffNonPositive ==
    last.op = "new_raster_n32_premul" =>
       /\ last.result \in {"none", "some"}
       /\ last.result = "none" <=> (args.info.width <= 0 \/ args.info.height <= 0)

C6_Witness ==
    /\ last.op = "new_raster_n32_premul"
    /\ args.info.width > 0
    /\ args.info.height <= 0
    /\ last.result = "none"

FactoryOps ==
    {"new_raster", "new_raster_direct", "new_raster_n32_premul", "new_null",
     "new_render_target", "new_surface", "new_surface_with_dimensions"}

C8_OneOwnerPerReference ==
    /\ \A s \in SurfaceIds :
          /\ Live(s) => (surfaces[s].owners >= 1 /\ surfaces[s].refCnt = surfaces[s].owners)
          /\ ~Live(s) => (surfaces[s].owners = 0 /\ surfaces[s].refCnt = 0)
    /\ (last.op \in FactoryOps \cup {"from_backend_texture"} /\ last.result = "some")
          => surfaces[last.surf].refCnt = 1

\* new_raster_n32_premul((1, 1)) has just returned a surface
C8_Witness ==
    /\ last.op = "new_raster_n32_premul"
    /\ last.result = "some"
    /\ width(last.surf) = 1 /\ height(last.surf) = 1
    /\ surfaces[last.surf].refCnt = 1

\* C9: no fallible call panics: invalid input is reported by an absent result.
C9_NoCallPanics == ~panicked

\* C10: image_snapshot() of a null surface of size (100, 100) returns no image,
\* and the surface still reports a width and a height of 100.
C10_NullSnapshotIsAbsent ==
    (/\ last.op = "image_snapshot"
     /\ surfaces[last.surf].kind = "null"
     /\ last.info = NullInfo(100, 100))
       => /\ last.result = "none"
          /\ width(last.surf) = 100
          /\ height(last.surf) = 100


\* the calls that draw on a surface's canvas
DrawCalls == {"draw", "canvas_draw"}

\* C11 as stated: every call of notify_content_will_change and every drawing
\* call on a surface's canvas makes the surface's content id strictly greater,
\* and the content id of a surface never decreases.
C11_EveryDrawAdvances ==
    [][\A s \in SurfaceIds :
          (Live(s) /\ surfaces'[s].kind # "none") =>
             /\ surfaces'[s].gen >= surfaces[s].gen
             /\ (last'.surf = s /\ last'.op \in DrawCalls \cup {"notify_content_will_change"})
                   => surfaces'[s].gen > surfaces[s].gen]_vars

\* C11 amended: every call of notify_content_will_change, and every drawing
\* call on the canvas of a surface that is not a null surface, makes the
\* surface's content id strictly greater; the content id never decreases, and
\* generation_id returns it.
C11_GenerationAdvances ==
    [][\A s \in SurfaceIds :
          (Live(s) /\ surfaces'[s].kind # "none") =>
             /\ surfaces'[s].gen >= surfaces[s].gen
             /\ (last'.surf = s /\ last'.op = "notify_content_will_change")
                   => surfaces'[s].gen > surfaces[s].gen
             /\ (last'.surf = s /\ last'.op \in DrawCalls /\ surfaces[s].kind # "null")
                   => surfaces'[s].gen > surfaces[s].gen
             /\ (last'.surf = s /\ last'.op = "generation_id")
                   => last'.value = surfaces[s].gen]_vars

\* a second change of content seen by generation_id
C11_Witness ==
    /\ last.op = "generation_id"
    /\ Live(last.surf)
    /\ surfaces[last.surf].kind = "raster"
    /\ surfaces[last.surf].content = 1
    /\ last.value >= 2

HandleCalls ==
    {"draw", "generation_id", "notify_content_will_change", "image_snapshot",
     "clone", "new_surface", "new_surface_with_dimensions"}

\* C13 as stated: while a canvas reference is held the surface is alive, the
\* reference is the only one, and no other call is made on the same surface.
C13_NoCallWhileCanvasHeld ==
    \A s \in SurfaceIds :
       surfaces[s].held > 0 =>
          /\ Live(s)
          /\ surfaces[s].held = 1
          /\ ~(last.surf = s /\ last.op \in HandleCalls \cup {"drop"})

\* C13 amended: a canvas reference is an exclusive borrow of the handle it was
\* obtained from: while it is held that handle makes no call and is not
\* dropped, so the surface is alive; a call on the same surface is made only
\* through another handle of it.
C13_CanvasBorrowsHandle ==
    \A s \in SurfaceIds :
       /\ surfaces[s].held <= surfaces[s].owners
       /\ surfaces[s].held > 0 => Live(s)
       /\ (Live(s) /\ last.surf = s /\ last.op \in HandleCalls)
             => surfaces[s].held < surfaces[s].owners

\* a call on a surface while one of its two handles lends out the canvas
C13_Witness ==
    /\ last.op = "notify_content_will_change"
    /\ surfaces[last.surf].held = 1
    /\ surfaces[last.surf].owners = 2


SnapshotCalls == {"image_snapshot", "image_snapshot_with_bounds"}

\* the rectangle of the surface an image was taken of
ImageRect(img) == IRect(img.left, img.top, img.right, img.bottom)

\* C14: an image taken by image_snapshot or image_snapshot_with_bounds holds the
\* pixels the surface had when it was taken, and no later call (a draw, a
\* write_pixels, a notify_content_will_change) changes it.
C14_SnapshotImmutable ==
    [][/\ (last'.op \in SnapshotCalls /\ last'.result = "some")
            => image' = Captured(last'.surf, ImageRect(image'))
       /\ (image.live /\ ~(last'.op \in SnapshotCalls /\ last'.result = "some"))
            => image' = image]_vars

\* pixels written to the surface after the image was taken of it: the image
\* and the surface differ
C14_Witness ==
    /\ last.op = "write_pixels_from_bitmap"
    /\ image.live
    /\ last.surf = image.surf
    /\ surfaces[image.surf].kind = "raster"
    /\ ImageRect(image) = SurfaceRect(surfaces[image.surf])
    /\ image # Snapshot(image.surf)

\* what image_snapshot() gives on a surface: an image, or a panic
ImageSnapshotResult(s) ==
    IF SkSurface_makeImageSnapshot(surfaces[s].kind) THEN "some" ELSE "panic"

\* C15: image_snapshot_with_bounds returns None when the bounds do not intersect
\* the surface; an image it returns covers exactly the intersection of the
\* bounds and the surface; with the bounds equal to the surface's rectangle its
\* result is that of image_snapshot().
C15_BoundsIntersected ==
    last.op = "image_snapshot_with_bounds" =>
       LET surf == surfaces[last.surf]
           cut == Intersect(last.bounds, SurfaceRect(surf))
       IN  /\ IsEmpty(cut) => last.result = "none"
           /\ last.result = "some" => image = Captured(last.surf, cut)
           /\ last.bounds = SurfaceRect(surf) =>
                 /\ last.result = ImageSnapshotResult(last.surf)
                 /\ last.result = "some" => image = Snapshot(last.surf)

ReadCalls == {"read_pixels", "read_pixels_to_pixmap", "read_pixels_to_bitmap"}
WriteCalls == {"write_pixels_from_pixmap", "write_pixels_from_bitmap"}

C18_OffsetRead ==
    [][(last'.op = "read_pixels" /\ last'.result = "true")
          => LET surf == surfaces[last'.surf]
                 info == last'.info
                 ct == info.colorType
                 old == buffers[last'.buf].bytes
                 new == buffers'[last'.buf].bytes
                 read == ReadPoints(surf, info, last'.at)
             IN  /\ DOMAIN new = DOMAIN old
                 /\ \A p \in read, k \in 1 .. bytes_per_pixel(ct) :
                       new[ByteAt(p, k, ct, last'.strideChecked)]
                          = convert(pixels_of(surf)[Shift(p, last'.at)], surf.colorType, ct)[k]
                 /\ \A i \in DOMAIN new :
                       (\A p \in read, k \in 1 .. bytes_per_pixel(ct) :
                           ByteAt(p, k, ct, last'.strideChecked) # i)
                          => new[i] = old[i]]_vars

\* a read at a negative offset, from a surface drawn to, into the caller's
\* pattern: one part of the buffer read, the other kept
C18_Witness ==
    /\ last.op = "read_pixels"
    /\ last.result = "true"
    /\ last.at = <<-1, -1>>
    /\ surfaces[last.surf].content = 1
    /\ \E i \in DOMAIN buffers[last.buf].bytes : buffers[last.buf].bytes[i] = 255
    /\ buffers[last.buf].bytes[1] = 1

\* a read at (0, 0) that follows a write at (0, 0) from a view with the same
\* ImageInfo, no other change of the surface in between
RoundTrip ==
    /\ last.op = "read_pixels"
    /\ last.result = "true"
    /\ last.at = <<0, 0>>
    /\ surfaces[last.surf].kind = "raster"
    /\ surfaces[last.surf].wrote.at = <<0, 0>>
    /\ surfaces[last.surf].wrote.info = last.info

\* the pixels the read has put in the buffer
ReadBack == Decode(buffers[last.buf].bytes, last.info, last.strideChecked)

C20_WriteClipped ==
    [][last'.op \in WriteCalls
          => LET s == last'.surf
                 old == pixels_of(surfaces[s])
                 after == surfaces'[s]
                 new == IF after.kind = "direct"
                        THEN Decode(buffers'[after.buf].bytes, info_of(after), after.rowBytes)
                        ELSE after.pixels
                 written == WritePoints(surfaces[s], last'.info, last'.at)
             IN  /\ DOMAIN new = DOMAIN old
                 /\ \A p \in DOMAIN old : p \notin written => new[p] = old[p]
                 /\ written = {} => (surfaces' = surfaces /\ buffers' = buffers)]_vars

\* a source shifted up and left, partly outside the surface: one pixel of the
\* surface written, the others as they were
C20_Witness ==
    /\ last.op = "write_pixels_from_bitmap"
    /\ last.at = <<-1, -1>>
    /\ surfaces[last.surf].kind = "raster"
    /\ surfaces[last.surf].wrote.at = <<-1, -1>>
    /\ \E p \in DOMAIN surfaces[last.surf].pixels :
          surfaces[last.surf].pixels[p] # Pixel(surfaces[last.surf].colorType, 0)
    /\ \E p \in DOMAIN surfaces[last.surf].pixels :
          surfaces[last.surf].pixels[p] = Pixel(surfaces[last.surf].colorType, 0)


\* C21: the width and the height of a surface are those of the ImageInfo it
\* was made with, are not negative, and are the same after every call on the
\* surface: a draw, a notify_content_will_change, a snapshot, a read or a write
\* of pixels, a flush, a surface derived from it.
C21_DimensionsFixed ==
    [][\A s \in SurfaceIds :
          /\ (~Live(s) /\ Live(s)') =>
                /\ last'.surf = s
                /\ width(s)' = last'.info.width
                /\ height(s)' = last'.info.height
                /\ width(s)' >= 0
                /\ height(s)' >= 0
          /\ (Live(s) /\ Live(s)') =>
                /\ width(s)' = width(s)
                /\ height(s)' = height(s)]_vars

\* a surface wider than high that was drawn to and flushed, and a smaller
\* surface derived from it
C21_Witness ==
    /\ last.op = "new_surface_with_dimensions"
    /\ last.result = "some"
    /\ last.surf = 2
    /\ surfaces[1].gen >= 1
    /\ width(1) = MaxDim
    /\ height(1) = 1
    /\ width(2) = 1


DeriveCalls == {"new_surface", "new_surface_with_dimensions"}

\* the backing of a surface: one that draws into a caller's buffer is a raster
\* surface
Backing(kind) == IF kind = "direct" THEN "raster" ELSE kind

\* the pixels of surface t after a step
PixelsAfter(t) ==
    IF surfaces'[t].kind = "direct"
    THEN Decode(buffers'[surfaces'[t].buf].bytes, info_of(surfaces'[t]), surfaces'[t].rowBytes)
    ELSE surfaces'[t].pixels

\* C22: new_surface and new_surface_with_dimensions return None exactly when a
\* dimension asked is not positive or the format does not go with the surface;
\* the surface they return is a new one of the backing (raster, GPU, null) of
\* the original, with pixels of its own: a draw or a write to one surface
\* leaves the pixels of every other surface as they were.
C22_DerivedIndependent ==
    [][/\ last'.op \in DeriveCalls =>
             LET orig == surfaces[last'.parent]
                 info == last'.info
                 refused == \/ ~PositiveDims(info.width, info.height)
                            \/ (orig.kind # "null" /\ info.colorType = "Unknown")
                 new == surfaces'[last'.surf]
             IN  /\ last'.result = (IF refused THEN "none" ELSE "some")
                 /\ last'.result = "none" => surfaces' = surfaces
                 /\ last'.result = "some" =>
                       /\ ~Live(last'.surf)
                       /\ Backing(new.kind) = Backing(orig.kind)
                       /\ new.buf = 0
                       /\ info_of(new) = info
                       /\ surfaces'[last'.parent] = orig
                       /\ buffers' = buffers
       /\ last'.op \in DrawCalls \cup WriteCalls =>
             \A t \in SurfaceIds \ {last'.surf} :
                Live(t) => PixelsAfter(t) = pixels_of(surfaces[t])]_vars

\* a draw on the surface derived from one that draws into the caller's buffer:
\* the buffer holds the zeros it held
C22_Witness ==
    /\ last.op = "draw"
    /\ last.surf = 2
    /\ surfaces[1].kind = "direct"
    /\ surfaces[2].kind = "raster"
    /\ surfaces[2].content = 1
    /\ buffers[surfaces[1].buf].data = 0
    /\ pixels_of(surfaces[1]) = ZeroGrid(info_of(surfaces[1]))


\* C23: a surface returned by new_render_target_with_characterization for a
\* characterization is compatible with that characterization, whatever was
\* called on it since; characterize() of a raster surface is None.
C23_CompatibleWithCharacterization ==
    /\ (/\ last.op = "is_compatible"
        /\ Live(last.surf)
        /\ surfaces[last.surf].madeFor.valid
        /\ last.charac = surfaces[last.surf].madeFor)
          => last.result = "true"
    /\ (/\ last.op = "new_render_target_with_characterization"
        /\ last.result = "some")
          => surfaces[last.surf].madeFor = last.charac
    /\ (/\ last.op = "characterize"
        /\ Live(last.surf)
        /\ surfaces[last.surf].kind \in {"raster", "direct"})
          => last.result = "none"

\* the surface made for a characterization, drawn to and flushed, asked whether
\* it is compatible with it
C23_Witness ==
    /\ last.op = "is_compatible"
    /\ Live(last.surf)
    /\ surfaces[last.surf].madeFor.valid
    /\ last.charac = surfaces[last.surf].madeFor
    /\ last.charac.info.colorType = "Alpha8"
    /\ surfaces[last.surf].gen >= 1
    /\ surfaces[last.surf].pending = 0
    /\ last.result = "true"

\* C24: on a raster surface or a null surface each of the flush calls and
\* resolve_msaa does nothing: no panic, nothing signalled, and the pixels, the
\* dimensions and the canvas of every surface, and every buffer, as before.
C24_FlushIsNoOp ==
    [][(/\ last'.op \in FlushCalls
        /\ surfaces[last'.surf].kind \in {"raster", "direct", "null"})
          => /\ ~panicked'
             /\ last'.result \in {"unit", "No"}
             /\ surfaces' = surfaces
             /\ buffers' = buffers
             /\ image' = image]_vars

\* flush_with_access_info on a raster surface that was drawn to and whose
\* canvas was handed out
C24_Witness ==
    /\ last.op = "flush_with_access_info"
    /\ last.result = "No"
    /\ surfaces[last.surf].kind = "raster"
    /\ surfaces[last.surf].gen >= 1
    /\ surfaces[last.surf].canvas >= 1
    /\ surfaces[last.surf].pixels = Painted(surfaces[last.surf])
    /\ ~panicked

\* C25: a display list that is not compatible with the surface is not drawn
\* and false is returned; with an offset other than (0, 0) the draw is ignored;
\* draw_display_list(ddl) does what draw_display_list_with_offset(ddl, (0, 0))
\* does: with a compatible list both return true and paint the surface.
C25_DisplayListDraw ==
    [][last'.op \in DisplayListCalls
          => LET s == last'.surf
                 c == last'.charac
                 compatible == /\ surfaces[s].kind = "gpu"
                               /\ c.valid
                               /\ c.info = info_of(surfaces[s])
             IN  /\ ~compatible
                       => last'.result = "false" /\ surfaces' = surfaces
                 /\ last'.at # <<0, 0>>
                       => surfaces' = surfaces
                 /\ last'.op = "draw_display_list" => last'.at = <<0, 0>>
                 /\ (compatible /\ last'.at = <<0, 0>>)
                       => /\ last'.result = "true"
                          /\ surfaces'[s].gen = surfaces[s].gen + 1
                          /\ surfaces'[s].pixels[<<0, 0>>] = OpaqueBlack(surfaces[s].colorType)
                 /\ ~panicked'
                 /\ buffers' = buffers
                 /\ image' = image]_vars

\* a compatible display list drawn at an offset to a GPU surface never drawn to
C25_Witness ==
    /\ last.op = "draw_display_list_with_offset"
    /\ last.at = <<1, 0>>
    /\ Live(last.surf)
    /\ surfaces[last.surf].kind = "gpu"
    /\ last.charac = Characterization(info_of(surfaces[last.surf]))
    /\ surfaces[last.surf].gen = 0
    /\ surfaces[last.surf].pixels[<<0, 0>>] # OpaqueBlack(surfaces[last.surf].colorType)

\* C26: unresolved_glyphs returns None while the paragraph is not laid out,
\* before the first layout and from mark_dirty to the next layout, and
\* Some(n) with n >= 0, the count of the last layout, while it is laid out.
C26_UnresolvedGlyphs ==
    last.op = "unresolved_glyphs"
       => /\ last.result = "none" <=> paragraph.state # "laidout"
          /\ last.result = "some" <=> paragraph.state = "laidout"
          /\ last.result = "some"
                => last.value >= 0 /\ last.value = paragraph.unresolved

\* the count asked of a paragraph laid out with a glyph no font has
C26_Witness ==
    /\ last.op = "unresolved_glyphs"
    /\ paragraph.state = "laidout"
    /\ last.result = "some"
    /\ last.value = MaxUnresolved

\* C26 as stated: None while no layout has run, Some once layout has run.
C26_SomeOnceLayoutHasRun ==
    last.op = "unresolved_glyphs"
       => /\ ~paragraph.shaped => last.result = "none"
          /\ paragraph.shaped => last.result = "some"

\* C27: mark_dirty moves a laid-out paragraph to the stale state and keeps its
\* text and style; only layout(width) brings a paragraph to the laid-out
\* state, and there the queries reflect that width; no other call changes the
\* paragraph.
C27_Lifecycle ==
    [][/\ last'.op = "mark_dirty"
             => /\ paragraph'.state = "dirty"
                /\ paragraph'.text = paragraph.text
                /\ paragraph'.width = paragraph.width
       /\ (paragraph.state # "laidout" /\ paragraph'.state = "laidout")
             => last'.op = "layout"
       /\ last'.op = "layout"
             => /\ paragraph'.state = "laidout"
                /\ paragraph'.width = last'.value
                /\ paragraph'.text = paragraph.text
       /\ last'.op \notin {"layout", "mark_dirty"}
             => paragraph' = paragraph
       /\ (last'.op = "max_width" /\ paragraph.state = "laidout")
             => last'.value = paragraph.width /\ last'.value \in Widths]_vars

\* a paragraph laid out at the largest width and then marked dirty
C27_Witness ==
    /\ last.op = "mark_dirty"
    /\ paragraph.state = "dirty"
    /\ paragraph.shaped
    /\ paragraph.width = MaxWidth
    /\ paragraph.text = NewParagraph.text

\* C28: no two threads are at the same time inside native methods that hold a
\* mutable pointer to the one paragraph.
C28_NoDataRace ==
    \A t1 \in Threads, t2 \in Threads :
        (t1 # t2 /\ paragraph.inside[t1] # "idle") => paragraph.inside[t2] = "idle"

\* C29: new_raster with no row_bytes passes the stride 0 to the native
\* factory; the surface made owns height x min_row_bytes bytes of zeroed pixel
\* memory and borrows no buffer; the memory stays as long as a handle of the
\* surface is left and goes with the last one.
C29_RasterAllocation ==
    [][\A s \in SurfaceIds :
         /\ (/\ last'.op = "new_raster"
             /\ ~last'.rowBytes.some
             /\ ~Live(s)
             /\ Live(s)')
               => /\ last'.strideNative = 0
                  /\ surfaces'[s].alloc = last'.info.height * min_row_bytes(last'.info)
                  /\ surfaces'[s].alloc > 0
                  /\ \A p \in DOMAIN surfaces'[s].pixels :
                        \A k \in DOMAIN surfaces'[s].pixels[p] :
                           surfaces'[s].pixels[p][k] = 0
                  /\ DOMAIN surfaces'[s].pixels =
                        (0 .. last'.info.width - 1) \X (0 .. last'.info.height - 1)
                  /\ surfaces'[s].buf = 0
                  /\ buffers' = buffers
         /\ (Live(s) /\ Live(s)')
               => surfaces'[s].alloc = surfaces[s].alloc
         /\ (Live(s) /\ ~Live(s)')
               => /\ last'.op = "drop"
                  /\ surfaces[s].refCnt = 1
         /\ (Live(s) /\ last'.op = "drop" /\ surfaces[s].refCnt > 1)
               => Live(s)']_vars

\* a raster surface made with no row_bytes, drawn to, of two handles one
\* dropped: its pixel memory is still there
C29_Witness ==
    /\ last.op = "drop"
    /\ ~args.rowBytes.some
    /\ Live(last.surf)
    /\ surfaces[last.surf].kind = "raster"
    /\ surfaces[last.surf].gen >= 1
    /\ surfaces[last.surf].refCnt = 1
    /\ surfaces[last.surf].alloc = MaxDim * MaxDim * 4

====
